---- MODULE Spec2Model ----
(***************************************************************************)
(* A model of rasa/train.py (the build coordinator: train_async and the    *)
(* functions it calls) and of rasa/core/utils.py's LockCounter.            *)
(*                                                                         *)
(* Coroutines run on one asyncio event loop: a coroutine runs without      *)
(* interruption until it awaits something that suspends it.  `running` is  *)
(* the coroutine that holds the event loop's thread (0: none); a step that *)
(* is not a suspension point keeps it, and no other coroutine moves until  *)
(* it is given up.                                                         *)
(*                                                                         *)
(* Spec      : the train_async requests (rasa/train.py).                   *)
(* LockSpec  : coroutines using one LockCounter (rasa/core/utils.py).      *)
(* LockFair  : LockSpec with the event loop's and the holders' fairness.   *)
(* EntrySpec : train_core_async and train_nlu called on their own.         *)
(* RegistrySpec : coroutines taking their LockCounter from a registry that *)
(*             discards unused instances.                                  *)
(***************************************************************************)
EXTENDS Integers, Sequences, FiniteSets, TLC

\* ------------------------------------------------------------- bounds
\* Coroutines that use the one LockCounter instance.
NumProcs == 3
\* Distinct contents an input file or data tree may have (versions 1..MaxVer).
MaxVer == 2
\* Output locations.
NumLocs == 2

Procs == 1..NumProcs
\* The targets the registry of locks is keyed by.
Keys == {"k1", "k2"}
NoKey == ""
\* The train_async requests, numbered in the order in which they are called.
Builds == {1, 2}
Min(a, b) == IF a < b THEN a ELSE b

VARIABLES
    running,        \* the coroutine executing on the event loop (0: none)
    \* --- LockCounter (one instance) and the coroutines using it
    locked,         \* asyncio.Lock._locked
    waiters,        \* asyncio.Lock._waiters: the waiting coroutines, in order
    wait_counter,   \* LockCounter.wait_counter
    lpc,            \* each coroutine's position
    fut,            \* the state of each waiter's future
    must_cancel,    \* Task._must_cancel: a cancellation not yet delivered
    \* --- train_async
    store,          \* the artifacts at each output location, oldest first
    clock,          \* the source of generated (time stamped) model names
    req,            \* each request's arguments
    pc,             \* each request's position
    mode,           \* the branch of train_async a request took
    new_fingerprint,
    old_model,      \* the latest artifact the request found (line 188)
    retrain,        \* <<retrain_core, retrain_nlu>> (line 189)
    train_path,     \* the content of the directory the request trains in
    core_run,       \* the request's call of rasa.core.train
    nlu_run,        \* the request's call of rasa.nlu.train
    packaged,       \* whether the request has called _package_model
    result,         \* what train_async returned or raised
    dirs,           \* the temporary directories of the request that exist
    log,            \* the messages the request has printed
    \* --- a registry of LockCounter instances, keyed by target
    objs,           \* the LockCounter instances created so far, in order
    reg,            \* the registry: the instance entered under each key (0: none)
    key,            \* the key each coroutine asked the registry for
    mine            \* the instance each coroutine got from the registry

lockVars == <<locked, waiters, wait_counter, lpc, fut, must_cancel>>
buildVars == <<store, clock, req, pc, mode, new_fingerprint, old_model, retrain,
               train_path, core_run, nlu_run, packaged, result, dirs, log>>
regVars == <<objs, reg, key, mine>>
vars == <<running, lockVars, buildVars, regVars>>

\* =====================================================================
\* LockCounter (rasa/core/utils.py) on asyncio.Lock
\* =====================================================================

\* self.wait_counter += 1
AcquireEnter(wc) == wc + 1

AcquireExit_Forgotten(wc) == wc

\* finally: self.wait_counter -= 1
AcquireExit(wc) == wc - 1

is_someone_waiting_CountsHolder == wait_counter # 0 \/ locked

\* is_someone_waiting
is_someone_waiting == wait_counter # 0

CanTakeLock_Unguarded == TRUE

\* asyncio.Lock.acquire's fast path: the lock is free and every waiter is
\* cancelled.
CanTakeLock == ~locked /\ \A i \in 1..Len(waiters) : fut[waiters[i]] = "cancelled"

WakeUpFirst_Never(ws, f) == f

\* asyncio.Lock._wake_up_first: the first waiter's future gets its result,
\* unless it is done already.
WakeUpFirst(ws, f) ==
    IF ws = <<>> THEN f
    ELSE IF f[Head(ws)] = "pending" THEN [f EXCEPT ![Head(ws)] = "result"]
    ELSE f

\* self._waiters.remove(fut)
RemoveWaiter(ws, p) == SelectSeq(ws, LAMBDA q : q # p)

\* acquire is called: the counter is incremented before exclusion is tried.
Enter(p) ==
    /\ running = 0
    /\ lpc[p] = "idle"
    /\ wait_counter' = AcquireEnter(wait_counter)
    /\ lpc' = [lpc EXCEPT ![p] = "entered"]
    /\ running' = p
    /\ UNCHANGED <<locked, waiters, fut, must_cancel, buildVars, regVars>>

\* super().acquire() returns at once; the finally clause decrements.
TakeFast(p) ==
    /\ running = p
    /\ lpc[p] = "entered"
    /\ CanTakeLock
    /\ locked' = TRUE
    /\ wait_counter' = AcquireExit(wait_counter)
    /\ lpc' = [lpc EXCEPT ![p] = "holding"]
    /\ running' = 0
    /\ UNCHANGED <<waiters, fut, must_cancel, buildVars, regVars>>

\* super().acquire() appends a future and awaits it: the coroutine suspends.
Park(p) ==
    /\ running = p
    /\ lpc[p] = "entered"
    /\ ~CanTakeLock
    /\ waiters' = Append(waiters, p)
    /\ fut' = [fut EXCEPT ![p] = "pending"]
    /\ lpc' = [lpc EXCEPT ![p] = "waiting"]
    /\ running' = 0
    /\ UNCHANGED <<locked, wait_counter, must_cancel, buildVars, regVars>>

\* The woken waiter resumes: it leaves the queue, takes the lock, and the
\* finally clause decrements.
ResumeAcquired(p) ==
    /\ running = 0
    /\ lpc[p] = "waiting"
    /\ fut[p] = "result"
    /\ ~must_cancel[p]
    /\ waiters' = RemoveWaiter(waiters, p)
    /\ locked' = TRUE
    /\ wait_counter' = AcquireExit(wait_counter)
    /\ lpc' = [lpc EXCEPT ![p] = "holding"]
    /\ fut' = [fut EXCEPT ![p] = "none"]
    /\ UNCHANGED <<running, must_cancel, buildVars, regVars>>

\* (CancelledError passed on without waking the next waiter)
ResumeCancelled_NoWakeUp(p) ==
    /\ running = 0
    /\ lpc[p] = "waiting"
    /\ fut[p] = "cancelled" \/ (fut[p] = "result" /\ must_cancel[p])
    /\ waiters' = RemoveWaiter(waiters, p)
    /\ fut' = [fut EXCEPT ![p] = "none"]
    /\ wait_counter' = AcquireExit(wait_counter)
    /\ lpc' = [lpc EXCEPT ![p] = "cancelled"]
    /\ must_cancel' = [must_cancel EXCEPT ![p] = FALSE]
    /\ UNCHANGED <<running, locked, buildVars, regVars>>

\* (a decrement in an except clause as well as in the finally clause)
ResumeCancelled_DecrementsTwice(p) ==
    /\ running = 0
    /\ lpc[p] = "waiting"
    /\ fut[p] = "cancelled" \/ (fut[p] = "result" /\ must_cancel[p])
    /\ waiters' = RemoveWaiter(waiters, p)
    /\ fut' = IF locked THEN [fut EXCEPT ![p] = "none"]
              ELSE WakeUpFirst(waiters', [fut EXCEPT ![p] = "none"])
    /\ wait_counter' = AcquireExit(AcquireExit(wait_counter))
    /\ lpc' = [lpc EXCEPT ![p] = "cancelled"]
    /\ must_cancel' = [must_cancel EXCEPT ![p] = FALSE]
    /\ UNCHANGED <<running, locked, buildVars, regVars>>

\* The waiter resumes with CancelledError: it leaves the queue, passes a
\* wake-up on if the lock is free, and the finally clause decrements.
ResumeCancelled(p) ==
    /\ running = 0
    /\ lpc[p] = "waiting"
    /\ fut[p] = "cancelled" \/ (fut[p] = "result" /\ must_cancel[p])
    /\ waiters' = RemoveWaiter(waiters, p)
    /\ fut' = IF locked THEN [fut EXCEPT ![p] = "none"]
              ELSE WakeUpFirst(waiters', [fut EXCEPT ![p] = "none"])
    /\ wait_counter' = AcquireExit(wait_counter)
    /\ lpc' = [lpc EXCEPT ![p] = "cancelled"]
    /\ must_cancel' = [must_cancel EXCEPT ![p] = FALSE]
    /\ UNCHANGED <<running, locked, buildVars, regVars>>

\* Task.cancel() on a coroutine suspended in acquire: its pending future is
\* cancelled, or, if the future is done already, the cancellation is
\* delivered when the coroutine resumes.
Cancel(p) ==
    /\ running = 0
    /\ lpc[p] = "waiting"
    /\ ~must_cancel[p]
    /\ fut[p] \in {"pending", "result"}
    /\ IF fut[p] = "pending"
       THEN fut' = [fut EXCEPT ![p] = "cancelled"] /\ UNCHANGED must_cancel
       ELSE must_cancel' = [must_cancel EXCEPT ![p] = TRUE] /\ UNCHANGED fut
    /\ UNCHANGED <<running, locked, waiters, wait_counter, lpc, buildVars, regVars>>

\* The holder releases (asyncio.Lock.release, inherited).
Release(p) ==
    /\ running = 0
    /\ lpc[p] = "holding"
    /\ locked' = FALSE
    /\ fut' = WakeUpFirst(waiters, fut)
    /\ lpc' = [lpc EXCEPT ![p] = "released"]
    /\ UNCHANGED <<running, waiters, wait_counter, must_cancel, buildVars, regVars>>

LockNext ==
    \E p \in Procs :
        \/ Enter(p)
        \/ TakeFast(p)
        \/ Park(p)
        \/ ResumeAcquired(p)
        \/ ResumeCancelled(p)
        \/ Cancel(p)
        \/ Release(p)

\* =====================================================================
\* A registry of LockCounter instances (the use the class is written for)
\* =====================================================================

\* LockCounter.__init__
NewLock == [locked |-> FALSE, waiters |-> <<>>, wait_counter |-> 0]

is_someone_waiting_on_Never(lock) == FALSE

\* lock.is_someone_waiting()
is_someone_waiting_on(lock) == lock.wait_counter # 0

\* asyncio.Lock.acquire's fast path on the instance.
CanTakeLockOn(lock) ==
    ~lock.locked /\ \A i \in 1..Len(lock.waiters) : fut[lock.waiters[i]] = "cancelled"

\* The instance under key k, a new one being entered if there is none.
Retrieve(k) == IF reg[k] # 0 THEN reg[k] ELSE Len(objs) + 1
Retrieved(k) == IF reg[k] # 0 THEN objs ELSE Append(objs, NewLock)

\* A coroutine retrieves (or creates) the lock of its key and calls acquire,
\* with no execution yield between the two.
RegEnter(p) ==
    /\ running = 0
    /\ lpc[p] = "idle"
    /\ \E k \in Keys :
        LET o == Retrieve(k)
        IN  /\ reg' = [reg EXCEPT ![k] = o]
            /\ objs' = [Retrieved(k) EXCEPT ![o].wait_counter = AcquireEnter(@)]
            /\ key' = [key EXCEPT ![p] = k]
            /\ mine' = [mine EXCEPT ![p] = o]
    /\ lpc' = [lpc EXCEPT ![p] = "entered"]
    /\ running' = p
    /\ UNCHANGED <<fut, must_cancel, locked, waiters, wait_counter, buildVars>>

RegTakeFast(p) ==
    /\ running = p
    /\ lpc[p] = "entered"
    /\ CanTakeLockOn(objs[mine[p]])
    /\ objs' = [objs EXCEPT ![mine[p]].locked = TRUE,
                            ![mine[p]].wait_counter = AcquireExit(@)]
    /\ lpc' = [lpc EXCEPT ![p] = "holding"]
    /\ running' = 0
    /\ UNCHANGED <<reg, key, mine, fut, must_cancel, locked, waiters,
                   wait_counter, buildVars>>

RegPark(p) ==
    /\ running = p
    /\ lpc[p] = "entered"
    /\ ~CanTakeLockOn(objs[mine[p]])
    /\ objs' = [objs EXCEPT ![mine[p]].waiters = Append(@, p)]
    /\ fut' = [fut EXCEPT ![p] = "pending"]
    /\ lpc' = [lpc EXCEPT ![p] = "waiting"]
    /\ running' = 0
    /\ UNCHANGED <<reg, key, mine, must_cancel, locked, waiters, wait_counter,
                   buildVars>>

RegResumeAcquired(p) ==
    /\ running = 0
    /\ lpc[p] = "waiting"
    /\ fut[p] = "result"
    /\ ~must_cancel[p]
    /\ objs' = [objs EXCEPT ![mine[p]].waiters = RemoveWaiter(@, p),
                            ![mine[p]].locked = TRUE,
                            ![mine[p]].wait_counter = AcquireExit(@)]
    /\ lpc' = [lpc EXCEPT ![p] = "holding"]
    /\ fut' = [fut EXCEPT ![p] = "none"]
    /\ UNCHANGED <<running, reg, key, mine, must_cancel, locked, waiters,
                   wait_counter, buildVars>>

RegResumeCancelled(p) ==
    /\ running = 0
    /\ lpc[p] = "waiting"
    /\ fut[p] = "cancelled" \/ (fut[p] = "result" /\ must_cancel[p])
    /\ objs' = [objs EXCEPT ![mine[p]].waiters = RemoveWaiter(@, p),
                            ![mine[p]].wait_counter = AcquireExit(@)]
    /\ fut' = IF objs[mine[p]].locked THEN [fut EXCEPT ![p] = "none"]
              ELSE WakeUpFirst(objs'[mine[p]].waiters, [fut EXCEPT ![p] = "none"])
    /\ lpc' = [lpc EXCEPT ![p] = "cancelled"]
    /\ must_cancel' = [must_cancel EXCEPT ![p] = FALSE]
    /\ UNCHANGED <<running, reg, key, mine, locked, waiters, wait_counter,
                   buildVars>>

RegCancel(p) ==
    /\ running = 0
    /\ lpc[p] = "waiting"
    /\ ~must_cancel[p]
    /\ fut[p] \in {"pending", "result"}
    /\ IF fut[p] = "pending"
       THEN fut' = [fut EXCEPT ![p] = "cancelled"] /\ UNCHANGED must_cancel
       ELSE must_cancel' = [must_cancel EXCEPT ![p] = TRUE] /\ UNCHANGED fut
    /\ UNCHANGED <<running, objs, reg, key, mine, lpc, locked, waiters,
                   wait_counter, buildVars>>

RegRelease(p) ==
    /\ running = 0
    /\ lpc[p] = "holding"
    /\ objs' = [objs EXCEPT ![mine[p]].locked = FALSE]
    /\ fut' = WakeUpFirst(objs[mine[p]].waiters, fut)
    /\ lpc' = [lpc EXCEPT ![p] = "released"]
    /\ UNCHANGED <<running, reg, key, mine, must_cancel, locked, waiters,
                   wait_counter, buildVars>>

\* The lock of key k is discarded: its entry is removed, which is done only
\* when no coroutine waits for it and it is not locked.
Discard(k) ==
    /\ running = 0
    /\ reg[k] # 0
    /\ ~is_someone_waiting_on(objs[reg[k]])
    /\ ~objs[reg[k]].locked
    /\ reg' = [reg EXCEPT ![k] = 0]
    /\ UNCHANGED <<running, objs, key, mine, lpc, fut, must_cancel, locked,
                   waiters, wait_counter, buildVars>>

RegistryNext ==
    \/ \E p \in Procs :
        \/ RegEnter(p)
        \/ RegTakeFast(p)
        \/ RegPark(p)
        \/ RegResumeAcquired(p)
        \/ RegResumeCancelled(p)
        \/ RegCancel(p)
        \/ RegRelease(p)
    \/ \E k \in Keys : Discard(k)

\* =====================================================================
\* train_async and the functions it calls (rasa/train.py)
\* =====================================================================

\* A domain file that fails to load or validate (InvalidDomain).
InvalidDomainFile == 0
\* A data directory os.listdir finds empty.
EmptyTree == 0
\* The fingerprint of an input that was not given to model_fingerprint.
Absent == -1
\* fixed_model_name = None
NoFixedName == ""
FixedNames == {"m"}

\* The inputs request b may be called with.  Contents are named by version
\* numbers, and only their equality matters: the b-th request needs no
\* version above b, nor a location above b.
ContentsFor(b) == 1..Min(b, MaxVer)
TreesFor(b) == {EmptyTree} \cup ContentsFor(b)
DomainsFor(b) == {InvalidDomainFile} \cup ContentsFor(b)
OutputsFor(b) == 1..Min(b, NumLocs)
Locs == 1..NumLocs

NoReq == [entry |-> "", domain |-> 0, config |-> 0, nlu |-> 0, story |-> 0,
          output |-> 0, force |-> FALSE, fixed |-> NoFixedName, train_path |-> FALSE]
NoFingerprint == [config |-> Absent, domain |-> Absent, nlu |-> Absent, story |-> Absent]
\* A sub-artifact: what a trainer wrote, marked by the call that wrote it
\* (two trainings, even of equal inputs, are not taken to write equal bytes).
NoModel == [kind |-> "none", run |-> 0]
CoreModel(b) == [kind |-> "core", run |-> b]
NluModel(b) == [kind |-> "nlu", run |-> b]
EmptyDir == [core |-> NoModel, nlu |-> NoModel]
NoName == [fixed |-> NoFixedName, prefix |-> "", stamp |-> 0]
NoArtifact == [name |-> NoName, fp |-> NoFingerprint, core |-> NoModel, nlu |-> NoModel]
Pending == [kind |-> "pending", name |-> NoName]
ReturnedNone == [kind |-> "none", name |-> NoName]
Raised == [kind |-> "raised", name |-> NoName]
Path(name) == [kind |-> "path", name |-> name]
\* The path of the directory trained in (return _train_path).
TrainedDir == [kind |-> "dir", name |-> NoName]

\* model.model_fingerprint: one hash per input, each computed from that
\* input alone; the hash of a content is modelled by the content's version.
model_fingerprint(config, domain, nlu, story) ==
    [config |-> config, domain |-> domain, nlu |-> nlu, story |-> story]

\* model.get_latest_model: the most recently created artifact, or none.
get_latest_model(dir) == IF dir = <<>> THEN NoArtifact ELSE dir[Len(dir)]

\* model.should_retrain's decision: everything if there is no old model, else
\* Core iff the domain or the stories changed, NLU iff the config or the NLU
\* data changed.
should_retrain(fp, old) ==
    IF old = NoArtifact THEN <<TRUE, TRUE>>
    ELSE << fp.domain # old.fp.domain \/ fp.story # old.fp.story,
            fp.config # old.fp.config \/ fp.nlu # old.fp.nlu >>

\* model.should_retrain's effect on train_path: the old model's sub-artifact
\* of each kind that needs no retraining is put there.
MergeOld(fp, old) ==
    LET d == should_retrain(fp, old)
    IN  [core |-> IF d[1] THEN NoModel ELSE old.core,
         nlu |-> IF d[2] THEN NoModel ELSE old.nlu]

NeedsTraining_Always(force, rc, rn) == TRUE

\* if force_training or retrain_core or retrain_nlu
NeedsTraining(force, rc, rn) == force \/ rc \/ rn

ShouldTrainCore_IgnoresForce(force, rc) == rc

\* _do_training: if force_training or retrain_core
ShouldTrainCore(force, rc) == force \/ rc

ShouldTrainNlu_Always(force, rn) == TRUE

\* _do_training: if force_training or retrain_nlu
ShouldTrainNlu(force, rn) == force \/ rn

\* cli.utils.create_output_path: the fixed name if one is given, else a
\* generated unique name with the prefix.
create_output_path(prefix, fixed, stamp) ==
    IF fixed # NoFixedName THEN [fixed |-> fixed, prefix |-> "", stamp |-> 0]
    ELSE [fixed |-> NoFixedName, prefix |-> prefix, stamp |-> stamp]

\* model.create_package_rasa: the archive appears under its name as the newest
\* artifact; one of the same name is replaced.
create_package_rasa(dir, art) ==
    Append(SelectSeq(dir, LAMBDA a : a.name # art.name), art)

PackagedFingerprint_Missing(b) == NoFingerprint

\* The fingerprint a request packages: the one of line 152, or the one the
\* NLU-only (line 469) or Core-only (line 383) branch computes.
PackagedFingerprint(b) ==
    CASE mode[b] \in {"nlu_only", "no_domain"} ->
            model_fingerprint(req[b].config, Absent, req[b].nlu, Absent)
      [] mode[b] = "core_only" ->
            model_fingerprint(req[b].config, req[b].domain, Absent, req[b].story)
      [] OTHER -> new_fingerprint[b]

ModelPrefix_None(b) == ""

ModelPrefix(b) ==
    CASE mode[b] \in {"nlu_only", "no_domain"} -> "nlu-"
      [] mode[b] = "core_only" -> "core-"
      [] OTHER -> ""

domain_is_none_Never(d) == FALSE

\* train_async: if domain is None
domain_is_none(d) == d = InvalidDomainFile

dialogue_data_not_present_Never(s) == FALSE

\* dialogue_data_not_present = not os.listdir(story_directory)
dialogue_data_not_present(s) == s = EmptyTree

nlu_data_not_present_Never(n) == FALSE

\* nlu_data_not_present = not os.listdir(nlu_data_directory)
nlu_data_not_present(n) == n = EmptyTree

\* train_async's ExitStack: the temporary directories it enters.
TempDirs == {"train_path", "nlu_data", "story"}

ExitStack_exit_KeepsTrainPath(ds) == ds \cap {"train_path"}

\* ExitStack.__exit__: every TempDirectoryPath entered is removed, on return
\* and on an exception alike.
ExitStack_exit(ds) == {}

\* _train_core_with_validated_data / _train_nlu_with_validated_data:
\* `if train_path:`.  _do_training passes train_async's train_path on, the
\* degraded branches pass none, and a caller of train_core_async or train_nlu
\* may give one.
TrainPathGiven(b) == mode[b] = "full" \/ req[b].train_path

\* else: _train_path = stack.enter_context(TempDirectoryPath(tempfile.mkdtemp()))
WithTrainPath(b, ds) == IF TrainPathGiven(b) THEN ds ELSE ds \cup {"own"}

\* print_error / print_warning / print_success / print_color: the messages.
NoTrainingData == "No training data given."
NoDialogueData == "No dialogue data present. Just a Rasa NLU model will be trained."
NoNluData == "No NLU data present. Just a Rasa Core model will be trained."
NothingChangedMsg == "Nothing changed. You can use the old model."
CoreUnchangedMsg == "Core stories/configuration did not change. No need to retrain Core model."
NluUnchangedMsg == "NLU data/configuration did not change. No need to retrain NLU model."
TrainingCore == "Training Core model..."
CoreCompleted == "Core model training completed."
TrainingNlu == "Training NLU model..."
NluCompleted == "NLU model training completed."
ModelSaved == "Your Rasa model is trained and saved."
CoreSkipped == "Core training was skipped because no valid domain file was found."
NoStories == "No stories given."
NoNluGiven == "No NLU data given."

\* What train_async prints before its first trainer or its return.
CallMessages(m) ==
    CASE m = "no_data" -> {NoTrainingData}
      [] m = "nlu_only" -> {NoDialogueData}
      [] m = "core_only" -> {NoNluData}
      [] m = "skip" -> {NothingChangedMsg}
      [] OTHER -> {}

\* train_async is called and runs to its first suspension point or return:
\* lines 70-89 and, with a domain, _train_async_internal's lines 152-217.
Call(b) ==
    /\ running = 0
    /\ pc[b] = "idle"
    /\ \A c \in Builds : c < b => pc[c] # "idle"
    /\ \E d \in DomainsFor(b), c \in ContentsFor(b), n \in TreesFor(b),
          s \in TreesFor(b), o \in OutputsFor(b), f \in BOOLEAN,
          x \in {NoFixedName} \cup FixedNames :
        LET r == [entry |-> "train_async", domain |-> d, config |-> c, nlu |-> n,
                  story |-> s, output |-> o, force |-> f, fixed |-> x,
                  train_path |-> FALSE]
            fp == model_fingerprint(c, d, n, s)
            old == get_latest_model(store[o])
            dec == should_retrain(fp, old)
        IN  /\ req' = [req EXCEPT ![b] = r]
            /\ IF domain_is_none(d)
               THEN \* handle_domain_if_not_exists
                    /\ mode' = [mode EXCEPT ![b] = "no_domain"]
                    /\ pc' = [pc EXCEPT ![b] = "nlu"]
                    /\ running' = b
                    /\ UNCHANGED <<new_fingerprint, old_model, retrain, train_path, result>>
               ELSE IF dialogue_data_not_present(s) /\ nlu_data_not_present(n)
               THEN \* "No training data given."
                    /\ mode' = [mode EXCEPT ![b] = "no_data"]
                    /\ pc' = [pc EXCEPT ![b] = "done"]
                    /\ result' = [result EXCEPT ![b] = ReturnedNone]
                    /\ new_fingerprint' = [new_fingerprint EXCEPT ![b] = fp]
                    /\ UNCHANGED <<running, old_model, retrain, train_path>>
               ELSE IF dialogue_data_not_present(s)
               THEN /\ mode' = [mode EXCEPT ![b] = "nlu_only"]
                    /\ pc' = [pc EXCEPT ![b] = "nlu"]
                    /\ running' = b
                    /\ new_fingerprint' = [new_fingerprint EXCEPT ![b] = fp]
                    /\ UNCHANGED <<old_model, retrain, train_path, result>>
               ELSE IF nlu_data_not_present(n)
               THEN /\ mode' = [mode EXCEPT ![b] = "core_only"]
                    /\ pc' = [pc EXCEPT ![b] = "core"]
                    /\ running' = b
                    /\ new_fingerprint' = [new_fingerprint EXCEPT ![b] = fp]
                    /\ UNCHANGED <<old_model, retrain, train_path, result>>
               ELSE /\ new_fingerprint' = [new_fingerprint EXCEPT ![b] = fp]
                    /\ old_model' = [old_model EXCEPT ![b] = old]
                    /\ retrain' = [retrain EXCEPT ![b] = dec]
                    /\ IF NeedsTraining(f, dec[1], dec[2])
                       THEN /\ mode' = [mode EXCEPT ![b] = "full"]
                            /\ train_path' = [train_path EXCEPT ![b] = MergeOld(fp, old)]
                            /\ pc' = [pc EXCEPT ![b] = "core"]
                            /\ running' = b
                            /\ UNCHANGED result
                       ELSE \* "Nothing changed."
                            /\ mode' = [mode EXCEPT ![b] = "skip"]
                            /\ pc' = [pc EXCEPT ![b] = "done"]
                            /\ result' = [result EXCEPT ![b] = Path(old.name)]
                            /\ UNCHANGED <<running, train_path>>
    /\ UNCHANGED <<store, clock, core_run, nlu_run, packaged, lockVars, regVars>>
    /\ dirs' = [dirs EXCEPT ![b] = IF pc'[b] = "done" THEN ExitStack_exit(TempDirs) ELSE TempDirs]
    /\ log' = [log EXCEPT ![b] = CallMessages(mode'[b])]

\* _train_core_with_validated_data after the trainer: without a train_path
\* given it packages (Core only); with one (as from _do_training) it returns
\* the directory, and _do_training goes on to NLU.
AfterCore(b) ==
    IF mode[b] = "core_only"
    THEN IF req[b].train_path THEN "return" ELSE "package"
    ELSE "nlu"

AfterNlu_AlwaysPackages(b) == "package"

\* _train_nlu_with_validated_data after the trainer, likewise; the directory
\* _do_training gets back is packaged by _train_async_internal.
AfterNlu(b) ==
    IF mode[b] \in {"nlu_only", "no_domain"} /\ req[b].train_path
    THEN "return" ELSE "package"

\* The directory trained in when the request leaves by an exception: a
\* temporary one is removed, one the caller gave is left as it is.
AfterRaise(b, dir) == IF req[b].train_path THEN dir ELSE EmptyDir

\* (rasa.core.train called without await: the request goes on at once)
CoreStart_NotAwaited(b) ==
    /\ running = b
    /\ pc[b] = "core"
    /\ mode[b] = "core_only" \/ ShouldTrainCore(req[b].force, retrain[b][1])
    /\ core_run' = [core_run EXCEPT ![b] = "running"]
    /\ pc' = [pc EXCEPT ![b] = AfterCore(b)]
    /\ UNCHANGED <<running, store, clock, req, mode, new_fingerprint, old_model,
                   retrain, train_path, nlu_run, packaged, result, lockVars, regVars>>
    /\ dirs' = [dirs EXCEPT ![b] = WithTrainPath(b, @)]
    /\ log' = [log EXCEPT ![b] = @ \cup {TrainingCore}]

\* _do_training's Core branch, or the Core-only branch: rasa.core.train is
\* called and awaited, which suspends the request.
CoreStart(b) ==
    /\ running = b
    /\ pc[b] = "core"
    /\ mode[b] = "core_only" \/ ShouldTrainCore(req[b].force, retrain[b][1])
    /\ core_run' = [core_run EXCEPT ![b] = "running"]
    /\ pc' = [pc EXCEPT ![b] = "core_await"]
    /\ running' = 0
    /\ UNCHANGED <<store, clock, req, mode, new_fingerprint, old_model, retrain,
                   train_path, nlu_run, packaged, result, lockVars, regVars>>
    /\ dirs' = [dirs EXCEPT ![b] = WithTrainPath(b, @)]
    /\ log' = [log EXCEPT ![b] = @ \cup {TrainingCore}]

\* (the else branch without its message)
CoreUnchanged_Silent(b) ==
    /\ running = b
    /\ pc[b] = "core"
    /\ ~(mode[b] = "core_only" \/ ShouldTrainCore(req[b].force, retrain[b][1]))
    /\ pc' = [pc EXCEPT ![b] = "nlu"]
    /\ UNCHANGED <<running, store, clock, req, mode, new_fingerprint, old_model,
                   retrain, train_path, core_run, nlu_run, packaged, result,
                   dirs, log, lockVars, regVars>>

\* "Core stories/configuration did not change."
CoreUnchanged(b) ==
    /\ running = b
    /\ pc[b] = "core"
    /\ ~(mode[b] = "core_only" \/ ShouldTrainCore(req[b].force, retrain[b][1]))
    /\ pc' = [pc EXCEPT ![b] = "nlu"]
    /\ UNCHANGED <<running, store, clock, req, mode, new_fingerprint, old_model,
                   retrain, train_path, core_run, nlu_run, packaged, result, lockVars, regVars>>
    /\ UNCHANGED dirs
    /\ log' = [log EXCEPT ![b] = @ \cup {CoreUnchangedMsg}]

\* (rasa.core.train given the output location, not train_path, to write to)
CoreDone_TrainsInOutput(b) ==
    /\ running = 0
    /\ pc[b] = "core_await"
    /\ core_run' = [core_run EXCEPT ![b] = "ok"]
    /\ store' = [store EXCEPT ![req[b].output] =
                    Append(@, [NoArtifact EXCEPT !.core = CoreModel(b)])]
    /\ pc' = [pc EXCEPT ![b] = AfterCore(b)]
    /\ running' = b
    /\ UNCHANGED <<clock, req, mode, new_fingerprint, old_model, retrain,
                   train_path, nlu_run, packaged, result, lockVars, regVars>>
    /\ UNCHANGED dirs
    /\ log' = [log EXCEPT ![b] = @ \cup {CoreCompleted}]

\* rasa.core.train completes: its output is in train_path/core and the request
\* goes on, to the NLU branch or (Core only) to packaging.
CoreDone(b) ==
    /\ running = 0
    /\ pc[b] = "core_await"
    /\ core_run' = [core_run EXCEPT ![b] = "ok"]
    /\ train_path' = [train_path EXCEPT ![b].core = CoreModel(b)]
    /\ pc' = [pc EXCEPT ![b] = AfterCore(b)]
    /\ running' = b
    /\ UNCHANGED <<store, clock, req, mode, new_fingerprint, old_model, retrain,
                   nlu_run, packaged, result, lockVars, regVars>>
    /\ UNCHANGED dirs
    /\ log' = [log EXCEPT ![b] = @ \cup {CoreCompleted}]

\* (the trainer tried again after it raised)
CoreRaise_Retries(b) ==
    /\ running = 0
    /\ pc[b] = "core_await"
    /\ core_run' = [core_run EXCEPT ![b] = "none"]
    /\ pc' = [pc EXCEPT ![b] = "core"]
    /\ running' = b
    /\ UNCHANGED <<store, clock, req, mode, new_fingerprint, old_model, retrain,
                   train_path, nlu_run, packaged, result, lockVars, regVars>>
    /\ UNCHANGED dirs
    /\ UNCHANGED log

\* rasa.core.train raises: nothing catches it, train_async raises, and the
\* temporary directories are removed on the way out.
CoreRaise(b) ==
    /\ running = 0
    /\ pc[b] = "core_await"
    /\ core_run' = [core_run EXCEPT ![b] = "failed"]
    /\ train_path' = [train_path EXCEPT ![b] = AfterRaise(b, @)]
    /\ pc' = [pc EXCEPT ![b] = "done"]
    /\ result' = [result EXCEPT ![b] = Raised]
    /\ UNCHANGED <<running, store, clock, req, mode, new_fingerprint, old_model,
                   retrain, nlu_run, packaged, lockVars, regVars>>
    /\ dirs' = [dirs EXCEPT ![b] = ExitStack_exit(@)]
    /\ UNCHANGED log

TrainsNlu(b) ==
    mode[b] \in {"nlu_only", "no_domain"} \/ ShouldTrainNlu(req[b].force, retrain[b][2])

\* _do_training's NLU branch, or an NLU-only branch: rasa.nlu.train is called.
\* It is not awaited: the call blocks the event loop until it returns.
NluStart(b) ==
    /\ running = b
    /\ pc[b] = "nlu"
    /\ TrainsNlu(b)
    /\ nlu_run' = [nlu_run EXCEPT ![b] = "running"]
    /\ pc' = [pc EXCEPT ![b] = "nlu_call"]
    /\ UNCHANGED <<running, store, clock, req, mode, new_fingerprint, old_model,
                   retrain, train_path, core_run, packaged, result, lockVars, regVars>>
    /\ dirs' = [dirs EXCEPT ![b] = WithTrainPath(b, @)]
    /\ log' = [log EXCEPT ![b] = @ \cup {TrainingNlu}]

\* rasa.nlu.train returns: its output is in train_path/nlu.
NluDone(b) ==
    /\ running = b
    /\ pc[b] = "nlu_call"
    /\ nlu_run' = [nlu_run EXCEPT ![b] = "ok"]
    /\ train_path' = [train_path EXCEPT ![b].nlu = NluModel(b)]
    /\ pc' = [pc EXCEPT ![b] = AfterNlu(b)]
    /\ UNCHANGED <<running, store, clock, req, mode, new_fingerprint, old_model,
                   retrain, core_run, packaged, result, lockVars, regVars>>
    /\ UNCHANGED dirs
    /\ log' = [log EXCEPT ![b] = @ \cup {NluCompleted}]

\* (the trainer's exception caught and logged, and the request going on)
NluRaise_Swallowed(b) ==
    /\ running = b
    /\ pc[b] = "nlu_call"
    /\ nlu_run' = [nlu_run EXCEPT ![b] = "failed"]
    /\ pc' = [pc EXCEPT ![b] = "package"]
    /\ UNCHANGED <<running, store, clock, req, mode, new_fingerprint, old_model,
                   retrain, train_path, core_run, packaged, result, lockVars, regVars>>
    /\ UNCHANGED dirs
    /\ UNCHANGED log

\* rasa.nlu.train raises.
NluRaise(b) ==
    /\ running = b
    /\ pc[b] = "nlu_call"
    /\ nlu_run' = [nlu_run EXCEPT ![b] = "failed"]
    /\ train_path' = [train_path EXCEPT ![b] = AfterRaise(b, @)]
    /\ pc' = [pc EXCEPT ![b] = "done"]
    /\ result' = [result EXCEPT ![b] = Raised]
    /\ running' = 0
    /\ UNCHANGED <<store, clock, req, mode, new_fingerprint, old_model, retrain,
                   core_run, packaged, lockVars, regVars>>
    /\ dirs' = [dirs EXCEPT ![b] = ExitStack_exit(@)]
    /\ UNCHANGED log

\* "NLU data/configuration did not change."
NluUnchanged(b) ==
    /\ running = b
    /\ pc[b] = "nlu"
    /\ ~TrainsNlu(b)
    /\ pc' = [pc EXCEPT ![b] = "package"]
    /\ UNCHANGED <<running, store, clock, req, mode, new_fingerprint, old_model,
                   retrain, train_path, core_run, nlu_run, packaged, result, lockVars, regVars>>
    /\ UNCHANGED dirs
    /\ log' = [log EXCEPT ![b] = @ \cup {NluUnchangedMsg}]

\* (fixed_model_name not passed on to create_output_path)
package_model_IgnoresFixedName(b) ==
    /\ running = b
    /\ pc[b] = "package"
    /\ LET name == create_output_path(ModelPrefix(b), NoFixedName, clock + 1)
           art == [name |-> name, fp |-> PackagedFingerprint(b),
                   core |-> train_path[b].core, nlu |-> train_path[b].nlu]
       IN  /\ store' = [store EXCEPT ![req[b].output] = create_package_rasa(@, art)]
           /\ result' = [result EXCEPT ![b] = Path(name)]
    /\ clock' = clock + 1
    /\ packaged' = [packaged EXCEPT ![b] = TRUE]
    /\ train_path' = [train_path EXCEPT ![b] = EmptyDir]
    /\ pc' = [pc EXCEPT ![b] = "done"]
    /\ running' = 0
    /\ dirs' = [dirs EXCEPT ![b] = ExitStack_exit(@)]
    /\ log' = [log EXCEPT ![b] = @ \cup {ModelSaved}]
    /\ UNCHANGED <<req, mode, new_fingerprint, old_model, retrain, core_run,
                   nlu_run, lockVars, regVars>>

\* (the fingerprint of the model found packed again with the new model)
package_model_OldFingerprint(b) ==
    /\ running = b
    /\ pc[b] = "package"
    /\ LET name == create_output_path(ModelPrefix(b), req[b].fixed, clock + 1)
           art == [name |-> name, fp |-> old_model[b].fp,
                   core |-> train_path[b].core, nlu |-> train_path[b].nlu]
       IN  /\ store' = [store EXCEPT ![req[b].output] = create_package_rasa(@, art)]
           /\ result' = [result EXCEPT ![b] = Path(name)]
    /\ clock' = clock + 1
    /\ packaged' = [packaged EXCEPT ![b] = TRUE]
    /\ train_path' = [train_path EXCEPT ![b] = EmptyDir]
    /\ pc' = [pc EXCEPT ![b] = "done"]
    /\ running' = 0
    /\ dirs' = [dirs EXCEPT ![b] = ExitStack_exit(@)]
    /\ log' = [log EXCEPT ![b] = @ \cup {ModelSaved}]
    /\ UNCHANGED <<req, mode, new_fingerprint, old_model, retrain, core_run,
                   nlu_run, lockVars, regVars>>

\* _package_model: the name is made, train_path and the fingerprint are
\* packed under it at the output location, and its path is returned.
package_model(b) ==
    /\ running = b
    /\ pc[b] = "package"
    /\ LET name == create_output_path(ModelPrefix(b), req[b].fixed, clock + 1)
           art == [name |-> name, fp |-> PackagedFingerprint(b),
                   core |-> train_path[b].core, nlu |-> train_path[b].nlu]
       IN  /\ store' = [store EXCEPT ![req[b].output] = create_package_rasa(@, art)]
           /\ result' = [result EXCEPT ![b] = Path(name)]
    /\ clock' = clock + 1
    /\ packaged' = [packaged EXCEPT ![b] = TRUE]
    /\ train_path' = [train_path EXCEPT ![b] = EmptyDir]
    /\ pc' = [pc EXCEPT ![b] = "done"]
    /\ running' = 0
    /\ UNCHANGED <<req, mode, new_fingerprint, old_model, retrain, core_run,
                   nlu_run, lockVars, regVars>>
    /\ dirs' = [dirs EXCEPT ![b] = ExitStack_exit(@)]
    /\ log' = [log EXCEPT ![b] = @ \cup {ModelSaved} \cup
                (IF mode[b] = "no_domain" THEN {CoreSkipped} ELSE {})]

\* train_core_async is called on its own: an invalid domain or an empty story
\* tree returns None, else _train_core_with_validated_data starts.
train_core_async(b) ==
    /\ running = 0
    /\ pc[b] = "idle"
    /\ \A c \in Builds : c < b => pc[c] # "idle"
    /\ \E d \in DomainsFor(b), c \in ContentsFor(b), s \in TreesFor(b),
          o \in OutputsFor(b), x \in {NoFixedName} \cup FixedNames, t \in BOOLEAN :
        /\ req' = [req EXCEPT ![b] =
                [entry |-> "train_core_async", domain |-> d, config |-> c,
                 nlu |-> EmptyTree, story |-> s, output |-> o, force |-> FALSE,
                 fixed |-> x, train_path |-> t]]
        /\ IF domain_is_none(d) \/ dialogue_data_not_present(s)
           THEN /\ mode' = [mode EXCEPT ![b] = "no_core"]
                /\ pc' = [pc EXCEPT ![b] = "done"]
                /\ result' = [result EXCEPT ![b] = ReturnedNone]
                /\ log' = [log EXCEPT ![b] =
                        IF domain_is_none(d) THEN {CoreSkipped} ELSE {NoStories}]
                /\ dirs' = [dirs EXCEPT ![b] = ExitStack_exit({"story"})]
                /\ UNCHANGED running
           ELSE /\ mode' = [mode EXCEPT ![b] = "core_only"]
                /\ pc' = [pc EXCEPT ![b] = "core"]
                /\ running' = b
                /\ dirs' = [dirs EXCEPT ![b] = {"story"}]
                /\ UNCHANGED <<result, log>>
    /\ UNCHANGED <<store, clock, new_fingerprint, old_model, retrain, train_path,
                   core_run, nlu_run, packaged, lockVars, regVars>>

\* train_nlu is called on its own: an empty NLU data tree returns None, else
\* _train_nlu_with_validated_data starts.
train_nlu(b) ==
    /\ running = 0
    /\ pc[b] = "idle"
    /\ \A c \in Builds : c < b => pc[c] # "idle"
    /\ \E c \in ContentsFor(b), n \in TreesFor(b), o \in OutputsFor(b),
          x \in {NoFixedName} \cup FixedNames, t \in BOOLEAN :
        /\ req' = [req EXCEPT ![b] =
                [entry |-> "train_nlu", domain |-> InvalidDomainFile, config |-> c,
                 nlu |-> n, story |-> EmptyTree, output |-> o, force |-> FALSE,
                 fixed |-> x, train_path |-> t]]
        /\ IF nlu_data_not_present(n)
           THEN /\ mode' = [mode EXCEPT ![b] = "no_nlu"]
                /\ pc' = [pc EXCEPT ![b] = "done"]
                /\ result' = [result EXCEPT ![b] = ReturnedNone]
                /\ log' = [log EXCEPT ![b] = {NoNluGiven}]
                /\ dirs' = [dirs EXCEPT ![b] = ExitStack_exit({"nlu_data"})]
                /\ UNCHANGED running
           ELSE /\ mode' = [mode EXCEPT ![b] = "nlu_only"]
                /\ pc' = [pc EXCEPT ![b] = "nlu"]
                /\ running' = b
                /\ dirs' = [dirs EXCEPT ![b] = {"nlu_data"}]
                /\ UNCHANGED <<result, log>>
    /\ UNCHANGED <<store, clock, new_fingerprint, old_model, retrain, train_path,
                   core_run, nlu_run, packaged, lockVars, regVars>>

\* return _train_path: a train_path was given, nothing is packaged, and the
\* directory keeps what the trainer wrote.
return_train_path(b) ==
    /\ running = b
    /\ pc[b] = "return"
    /\ result' = [result EXCEPT ![b] = TrainedDir]
    /\ pc' = [pc EXCEPT ![b] = "done"]
    /\ running' = 0
    /\ UNCHANGED <<store, clock, req, mode, new_fingerprint, old_model, retrain,
                   train_path, core_run, nlu_run, packaged, lockVars, regVars>>
    /\ dirs' = [dirs EXCEPT ![b] = ExitStack_exit(@)]
    /\ UNCHANGED log

Next ==
    \E b \in Builds :
        \/ Call(b)
        \/ CoreStart(b)
        \/ CoreUnchanged(b)
        \/ CoreDone(b)
        \/ CoreRaise(b)
        \/ NluStart(b)
        \/ NluDone(b)
        \/ NluRaise(b)
        \/ NluUnchanged(b)
        \/ package_model(b)

\* =====================================================================
\* The specifications
\* =====================================================================

Init ==
    /\ running = 0
    /\ locked = FALSE
    /\ waiters = <<>>
    /\ wait_counter = 0
    /\ lpc = [p \in Procs |-> "idle"]
    /\ fut = [p \in Procs |-> "none"]
    /\ must_cancel = [p \in Procs |-> FALSE]
    /\ store = [l \in Locs |-> <<>>]
    /\ clock = 0
    /\ req = [b \in Builds |-> NoReq]
    /\ pc = [b \in Builds |-> "idle"]
    /\ mode = [b \in Builds |-> "none"]
    /\ new_fingerprint = [b \in Builds |-> NoFingerprint]
    /\ old_model = [b \in Builds |-> NoArtifact]
    /\ retrain = [b \in Builds |-> <<TRUE, TRUE>>]
    /\ train_path = [b \in Builds |-> EmptyDir]
    /\ core_run = [b \in Builds |-> "none"]
    /\ nlu_run = [b \in Builds |-> "none"]
    /\ packaged = [b \in Builds |-> FALSE]
    /\ result = [b \in Builds |-> Pending]
    /\ dirs = [b \in Builds |-> {}]
    /\ log = [b \in Builds |-> {}]
    /\ objs = <<>>
    /\ reg = [k \in Keys |-> 0]
    /\ key = [p \in Procs |-> NoKey]
    /\ mine = [p \in Procs |-> 0]

Spec == Init /\ [][Next]_vars

\* train_core_async and train_nlu called on their own.
EntryNext ==
    \E b \in Builds :
        \/ train_core_async(b)
        \/ train_nlu(b)
        \/ CoreStart(b)
        \/ CoreDone(b)
        \/ CoreRaise(b)
        \/ NluStart(b)
        \/ NluDone(b)
        \/ NluRaise(b)
        \/ package_model(b)
        \/ return_train_path(b)

EntrySpec == Init /\ [][EntryNext]_vars

\* Coroutines taking their lock from the registry.
RegistrySpec == Init /\ [][RegistryNext]_vars

LockSpec == Init /\ [][LockNext]_vars

LockFair ==
    /\ LockSpec
    /\ \A p \in Procs :
        /\ WF_vars(TakeFast(p))
        /\ WF_vars(Park(p))
        /\ WF_vars(ResumeAcquired(p))
        /\ WF_vars(ResumeCancelled(p))
        /\ WF_vars(Release(p))

\* =====================================================================
\* The claims
\* =====================================================================

Started(b) == pc[b] # "idle"
Finished(b) == pc[b] = "done"
\* The request reached the staleness decision: a valid domain and both data
\* trees non-empty.
Decides(b) ==
    /\ Started(b)
    /\ req[b].domain # InvalidDomainFile
    /\ req[b].nlu # EmptyTree
    /\ req[b].story # EmptyTree
\* Between starting a trainer and packaging or failing.
InTrainerPhase(b) ==
    /\ ~Finished(b)
    /\ core_run[b] # "none" \/ nlu_run[b] # "none"
SameOutput(a, b) == Started(a) /\ Started(b) /\ req[a].output = req[b].output
LockUntouched == ~locked /\ waiters = <<>> /\ wait_counter = 0

\* C1: two concurrent train_async calls for the same output location are
\* never both in their trainer phase (a trainer started, the request neither
\* packaged nor failed yet).
C1_TrainerPhasesNeverOverlap ==
    \A a, b \in Builds :
        (a # b /\ SameOutput(a, b)) => ~(InTrainerPhase(a) /\ InTrainerPhase(b))

Holders == {p \in Procs : lpc[p] = "holding"}
InAcquire(p) == lpc[p] \in {"entered", "waiting"}

\* C2: at most one coroutine is in its critical section (returned from acquire,
\* release not yet called), and the lock is locked while one is.
C2_MutualExclusion ==
    /\ Cardinality(Holders) <= 1
    /\ Holders # {} => locked

\* C2's case: the lock was handed from one coroutine to the next while a
\* third waits.
C2_Witness ==
    \E p, q, r \in Procs :
        lpc[p] = "released" /\ lpc[q] = "holding" /\ lpc[r] = "waiting"

\* C3: wait_counter stays within 0..N for N coroutines, whatever the
\* interleaving of acquire, release and cancellation.
C3_CounterInRange == wait_counter >= 0 /\ wait_counter <= NumProcs

\* C3's case: one coroutine's acquire was cancelled while another holds the lock
\* and a third still waits.
C3_Witness ==
    \E p, q, r \in Procs :
        /\ lpc[p] = "cancelled" /\ lpc[q] = "holding" /\ lpc[r] = "waiting"
        /\ wait_counter = 1

\* C4: with every holder releasing, wait_counter ends at 0 for good, and it is 0
\* whenever no coroutine is inside acquire.
C4_CounterReturnsToZero ==
    /\ <>[](wait_counter = 0)
    /\ []((\A p \in Procs : ~InAcquire(p)) => wait_counter = 0)

\* C4's case: every coroutine called acquire and is past it, one of them by
\* cancellation, and the counter is 0.
C4_Witness ==
    /\ \A p \in Procs : lpc[p] \in {"released", "cancelled"}
    /\ \E p, q \in Procs : lpc[p] = "released" /\ lpc[q] = "cancelled"
    /\ wait_counter = 0

\* The case of C5: the decision stage is reached without force_training and
\* the decision is (False, False).
NothingChanged(b) ==
    Decides(b) /\ ~req[b].force /\ retrain[b] = <<FALSE, FALSE>>

\* C5: when nothing changed, train_async returns the path of the latest
\* artifact in the very step it is called, having invoked no trainer, taken no
\* lock, packaged nothing and left the output location as it was.
C5_SkipReturnsExistingArtifact ==
    /\ [](\A b \in Builds : NothingChanged(b) =>
            /\ Finished(b)
            /\ result[b].kind = "path"
            /\ core_run[b] = "none" /\ nlu_run[b] = "none"
            /\ ~packaged[b]
            /\ LockUntouched)
    /\ [][\A b \in Builds : (~Started(b) /\ NothingChanged(b)') =>
            /\ store' = store
            /\ store[req'[b].output] # <<>>
            /\ result'[b] = Path(store[req'[b].output][Len(store[req'[b].output])].name)
            /\ UNCHANGED lockVars]_vars

\* C5's case: a request returned the existing artifact of an earlier one.
C5_Witness ==
    \E b \in Builds :
        /\ NothingChanged(b) /\ Finished(b)
        /\ store[req[b].output] # <<>>
        /\ result[b].kind = "path"

Latest(dir) == dir[Len(dir)]
\* The step in which request b calls _package_model.
Packages(b) == ~packaged[b] /\ packaged'[b]
Failed(b) == core_run[b] = "failed" \/ nlu_run[b] = "failed"

\* The case of C6: against the artifact the request found, only the story
\* data changed, and force_training is not set.
OnlyStoriesChanged(b) ==
    /\ Decides(b) /\ ~req[b].force
    /\ old_model[b] # NoArtifact
    /\ new_fingerprint[b].story # old_model[b].fp.story
    /\ new_fingerprint[b].config = old_model[b].fp.config
    /\ new_fingerprint[b].domain = old_model[b].fp.domain
    /\ new_fingerprint[b].nlu = old_model[b].fp.nlu

\* C6: when only the story data changed, the NLU trainer is never invoked, the
\* request does not end (unless it raises) without the Core trainer having
\* run, and the artifact it publishes holds the Core model just trained and the
\* previous artifact's NLU model.
C6_OnlyCoreRetrained ==
    /\ [](\A b \in Builds : OnlyStoriesChanged(b) =>
            /\ nlu_run[b] = "none"
            /\ pc[b] \notin {"core", "nlu"} => core_run[b] # "none"
            /\ (Finished(b) /\ result[b] # Raised) => (core_run[b] = "ok" /\ packaged[b]))
    /\ [][\A b \in Builds : (OnlyStoriesChanged(b) /\ Packages(b)) =>
            LET new == Latest(store'[req[b].output])
            IN  /\ new.nlu = old_model[b].nlu
                /\ new.nlu.kind = "nlu"
                /\ new.core = CoreModel(b)
                /\ result'[b] = Path(new.name)]_vars

\* C6's case: such a request has published its artifact.
C6_Witness ==
    \E b \in Builds :
        /\ OnlyStoriesChanged(b) /\ packaged[b]
        /\ old_model[b].nlu.kind = "nlu"
        /\ Latest(store[req[b].output]).nlu = old_model[b].nlu

\* The case of C7: the decision stage is reached with force_training set.
Forced(b) == Decides(b) /\ req[b].force

\* C7: with force_training the request never skips: the Core trainer is
\* invoked, the NLU trainer is invoked once the Core trainer succeeded, and
\* unless a trainer raises a new artifact holding both new models is
\* published, whatever the old fingerprint.
C7_ForceTrainsBoth ==
    /\ [](\A b \in Builds : Forced(b) =>
            /\ mode[b] = "full"
            /\ pc[b] # "core" => core_run[b] # "none"
            /\ (core_run[b] = "ok" /\ pc[b] # "nlu") => nlu_run[b] # "none"
            /\ (Finished(b) /\ result[b] # Raised) =>
                    /\ core_run[b] = "ok" /\ nlu_run[b] = "ok"
                    /\ packaged[b] /\ result[b].kind = "path")
    /\ [][\A b \in Builds : (Forced(b) /\ Packages(b)) =>
            LET new == Latest(store'[req[b].output])
            IN  /\ new.core = CoreModel(b)
                /\ new.nlu = NluModel(b)
                /\ new.fp = new_fingerprint[b]
                /\ result'[b] = Path(new.name)]_vars

\* C7's case: a forced request whose fingerprint equals the one of the latest
\* artifact has published.
C7_Witness ==
    \E b \in Builds :
        /\ Forced(b) /\ packaged[b]
        /\ old_model[b] # NoArtifact
        /\ new_fingerprint[b] = old_model[b].fp

\* C8: a request whose trainer failed has raised and has not packaged; the
\* step in which the trainer fails leaves the output locations as they are,
\* and every change of an output location is the packaging step of a
\* request no trainer of which has failed.
C8_FailureLeavesArtifacts ==
    /\ [](\A b \in Builds : Failed(b) =>
            Finished(b) /\ result[b] = Raised /\ ~packaged[b])
    /\ [][\A b \in Builds : (~Failed(b) /\ Failed(b)') => store' = store]_vars
    /\ [][store' # store => \E c \in Builds : Packages(c) /\ ~Failed(c)']_vars

\* C8's case: the NLU trainer failed after the Core trainer succeeded, in a
\* request with a fixed model name under which an artifact exists.
C8_Witness ==
    \E b \in Builds :
        /\ nlu_run[b] = "failed" /\ core_run[b] = "ok"
        /\ req[b].fixed # NoFixedName
        /\ \E i \in 1..Len(store[req[b].output]) :
                store[req[b].output][i].name.fixed = req[b].fixed

CoreRequired(b) ==
    mode[b] = "core_only" \/ (mode[b] = "full" /\ (req[b].force \/ retrain[b][1]))
NluRequired(b) ==
    \/ mode[b] \in {"nlu_only", "no_domain"}
    \/ mode[b] = "full" /\ (req[b].force \/ retrain[b][2])
RequiredDone(b) ==
    /\ CoreRequired(b) => core_run[b] = "ok"
    /\ NluRequired(b) => nlu_run[b] = "ok"

\* C9: an output location changes only in a request's one packaging step,
\* which changes that request's location alone and comes after every trainer
\* the request requires has succeeded; a request with a required trainer
\* pending or running has not packaged.
C9_OnlyPackagingWrites ==
    /\ [][store' # store =>
            \E b \in Builds :
                /\ Packages(b)
                /\ RequiredDone(b)
                /\ \A l \in Locs : l # req[b].output => store'[l] = store[l]]_vars
    /\ [][\A b \in Builds : packaged[b] =>
            /\ packaged'[b]
            /\ store' # store => \E c \in Builds : c # b /\ Packages(c)]_vars
    /\ [](\A b \in Builds : (Started(b) /\ ~RequiredDone(b)) => ~packaged[b])

\* C9's case: a request is suspended in its Core trainer, with the NLU trainer
\* still to come, at a location that holds an artifact.
C9_Witness ==
    \E b \in Builds :
        /\ core_run[b] = "running" /\ NluRequired(b)
        /\ store[req[b].output] # <<>>

\* C10: a request with both data trees empty invokes no trainer, packages
\* nothing and returns None.
C10_NoDataFails ==
    \A b \in Builds :
        (Started(b) /\ req[b].nlu = EmptyTree /\ req[b].story = EmptyTree) =>
            /\ core_run[b] = "none" /\ nlu_run[b] = "none"
            /\ ~packaged[b]
            /\ Finished(b) /\ result[b] = ReturnedNone

\* The cases of C11: a valid domain and exactly one of the two data trees
\* empty.
NluOnlyData(b) ==
    /\ Started(b) /\ req[b].domain # InvalidDomainFile
    /\ req[b].story = EmptyTree /\ req[b].nlu # EmptyTree
CoreOnlyData(b) ==
    /\ Started(b) /\ req[b].domain # InvalidDomainFile
    /\ req[b].nlu = EmptyTree /\ req[b].story # EmptyTree

\* Only the trainer of the kind whose data is present is invoked, and unless
\* it raises the request ends having packaged.
DegradedRuns ==
    \A b \in Builds :
        /\ NluOnlyData(b) =>
            /\ core_run[b] = "none"
            /\ pc[b] # "nlu" => nlu_run[b] # "none"
            /\ (Finished(b) /\ result[b] # Raised) =>
                    nlu_run[b] = "ok" /\ packaged[b] /\ result[b].kind = "path"
        /\ CoreOnlyData(b) =>
            /\ nlu_run[b] = "none"
            /\ pc[b] # "core" => core_run[b] # "none"
            /\ (Finished(b) /\ result[b] # Raised) =>
                    core_run[b] = "ok" /\ packaged[b] /\ result[b].kind = "path"

\* The artifact published holds the one sub-artifact, just trained.
DegradedContent(b) ==
    LET new == Latest(store'[req[b].output])
    IN  /\ result'[b] = Path(new.name)
        /\ NluOnlyData(b) => (new.core = NoModel /\ new.nlu = NluModel(b))
        /\ CoreOnlyData(b) => (new.nlu = NoModel /\ new.core = CoreModel(b))

KindPrefix(b) == IF NluOnlyData(b) THEN "nlu-" ELSE "core-"

\* C11: with a valid domain and one data tree empty, only the trainer of the
\* other kind is invoked and (unless it raises) an artifact holding that
\* sub-artifact alone is published; its name is the fixed model name if one
\* is given, and otherwise a generated name with the prefix "nlu-" or "core-".
C11_ScopedDegradation ==
    /\ []DegradedRuns
    /\ [][\A b \in Builds : ((NluOnlyData(b) \/ CoreOnlyData(b)) /\ Packages(b)) =>
            LET new == Latest(store'[req[b].output])
            IN  /\ DegradedContent(b)
                /\ req[b].fixed = NoFixedName =>
                        (new.name.prefix = KindPrefix(b) /\ new.name.stamp > 0)
                /\ req[b].fixed # NoFixedName =>
                        (new.name.fixed = req[b].fixed /\ new.name.prefix = "")]_vars

\* C11's case: an NLU-only artifact and a Core-only artifact were published,
\* one under a generated name and one under a fixed name.
C11_Witness ==
    \E a, b \in Builds :
        /\ NluOnlyData(a) /\ packaged[a] /\ req[a].fixed = NoFixedName
        /\ CoreOnlyData(b) /\ packaged[b] /\ req[b].fixed # NoFixedName

\* C11 as stated: the published artifact's name always has the prefix.
C11_AlwaysPrefixed ==
    /\ []DegradedRuns
    /\ [][\A b \in Builds : ((NluOnlyData(b) \/ CoreOnlyData(b)) /\ Packages(b)) =>
            /\ DegradedContent(b)
            /\ Latest(store'[req[b].output]).name.prefix = KindPrefix(b)]_vars

\* The case of C12: the domain is invalid and the NLU data tree is not empty.
NoDomainWithNlu(b) ==
    Started(b) /\ req[b].domain = InvalidDomainFile /\ req[b].nlu # EmptyTree

\* C12: with an invalid domain and NLU data, train_async never invokes the
\* Core trainer and invokes the NLU trainer; it never returns None, it raises
\* only if the NLU trainer raised, and otherwise it ends having published an
\* artifact that holds the NLU model just trained and no Core model, whose
\* path it returns.
C12_InvalidDomainTrainsNlu ==
    /\ [](\A b \in Builds : NoDomainWithNlu(b) =>
            /\ core_run[b] = "none"
            /\ pc[b] # "nlu" => nlu_run[b] # "none"
            /\ result[b] # ReturnedNone
            /\ result[b] = Raised => nlu_run[b] = "failed"
            /\ (Finished(b) /\ nlu_run[b] # "failed") =>
                    nlu_run[b] = "ok" /\ packaged[b] /\ result[b].kind = "path")
    /\ [][\A b \in Builds : (NoDomainWithNlu(b) /\ Packages(b)) =>
            LET new == Latest(store'[req[b].output])
            IN  /\ new.core = NoModel
                /\ new.nlu = NluModel(b)
                /\ new.fp = model_fingerprint(req[b].config, Absent, req[b].nlu, Absent)
                /\ result'[b] = Path(new.name)]_vars

\* C12's case: a request with an invalid domain, stories and NLU data has
\* published its NLU-only artifact.
C12_Witness ==
    \E b \in Builds :
        /\ NoDomainWithNlu(b) /\ packaged[b]
        /\ req[b].story # EmptyTree
        /\ Latest(store[req[b].output]).core = NoModel

\* C13: a request with an invalid domain and an empty NLU data tree never
\* returns the path of an artifact and never publishes one.
C13_InvalidDomainNoNluFails ==
    \A b \in Builds :
        (Started(b) /\ req[b].domain = InvalidDomainFile /\ req[b].nlu = EmptyTree) =>
            /\ ~packaged[b]
            /\ result[b].kind # "path"

\* Request a has published a full artifact and request b is called next with
\* the same inputs for the same output location, without force_training.
SameInputs(r, q) ==
    /\ r.config = q.config /\ r.domain = q.domain
    /\ r.story = q.story /\ r.nlu = q.nlu
    /\ r.output = q.output
PublishedFull(a) ==
    /\ Finished(a) /\ packaged[a]
    /\ core_run[a] = "ok" /\ nlu_run[a] = "ok"
Repeats(a, b) ==
    /\ a # b /\ PublishedFull(a)
    /\ Started(b) /\ SameInputs(req[a], req[b]) /\ ~req[b].force

\* C14: a call that follows a call which published a full artifact, with the
\* same config, domain, stories, NLU data and output location and without
\* force_training, returns in the step it is called the path the first call
\* returned, which is that of the latest artifact at the location; it invokes
\* no trainer, packages nothing and leaves the location as it is.
C14_NextBuildObservesPrevious ==
    /\ [][\A a, b \in Builds : (~Started(b) /\ Repeats(a, b)') =>
            /\ Finished(b)'
            /\ result'[b] = result[a]
            /\ result'[b] = Path(Latest(store[req[a].output]).name)
            /\ Latest(store[req[a].output]).core = CoreModel(a)
            /\ Latest(store[req[a].output]).nlu = NluModel(a)
            /\ core_run'[b] = "none" /\ nlu_run'[b] = "none" /\ ~packaged'[b]
            /\ store' = store]_vars
    /\ [][\A b \in Builds : Finished(b) =>
            /\ Finished(b)'
            /\ core_run'[b] = core_run[b] /\ nlu_run'[b] = nlu_run[b]
            /\ packaged'[b] = packaged[b] /\ result'[b] = result[b]]_vars

\* C14's case: the second call returned the first call's artifact, published
\* under a generated name.
C14_Witness ==
    \E a, b \in Builds :
        /\ Repeats(a, b)
        /\ result[b] = result[a]
        /\ result[a].kind = "path" /\ result[a].name.stamp > 0
        /\ core_run[b] = "none" /\ nlu_run[b] = "none" /\ ~packaged[b]

\* Request b, suspended in its Core trainer, can be resumed with the trainer's
\* outcome.
CanStep(b) == ENABLED CoreDone(b) \/ ENABLED CoreRaise(b)
TrainerRunning(a) == core_run[a] = "running" \/ nlu_run[a] = "running"

\* C15: of two train_async calls for distinct output locations, neither is
\* ever made to wait by the stage the other is in: while one executes its
\* NLU trainer or its Core trainer, the other, suspended in its Core trainer,
\* can still be resumed.
C15_DistinctLocationsNeverBlock ==
    \A a, b \in Builds :
        (/\ a # b /\ Started(a) /\ Started(b)
         /\ req[a].output # req[b].output
         /\ TrainerRunning(a)
         /\ pc[b] = "core_await") => CanStep(b)

Standalone(b) == req[b].entry \in {"train_core_async", "train_nlu"}
Trained(b) == core_run[b] = "ok" \/ nlu_run[b] = "ok"

\* C16: a call of train_core_async or train_nlu that has trained and returned
\* has returned the path of the model archive it packaged if train_path was
\* given, and else the path of the directory with the trained model files.
C16_ReturnsAsDocumented ==
    \A b \in Builds :
        (Standalone(b) /\ Finished(b) /\ Trained(b)) =>
            /\ req[b].train_path => (result[b].kind = "path" /\ packaged[b])
            /\ ~req[b].train_path => (result[b] = TrainedDir /\ ~packaged[b])

\* A trainer's call within a request begins at most once and never begins
\* again after it ended: it goes from not invoked to running to succeeded or
\* failed, and stays there.
InvokedAtMostOnce(run) ==
    \A b \in Builds :
        /\ run[b] = "none" => run'[b] \in {"none", "running"}
        /\ run[b] = "running" => run'[b] \in {"running", "ok", "failed"}
        /\ run[b] \in {"ok", "failed"} => run'[b] = run[b]

\* C17: in a request that reached the decision stage and ended without a
\* trainer failing, the Core trainer was invoked (once) iff force_training or
\* retrain_core, and the NLU trainer iff force_training or retrain_nlu; no
\* trainer is invoked twice in a request, and a request whose trainer failed
\* has ended.
C17_TrainersInvokedOnce ==
    /\ [](\A b \in Builds : (Decides(b) /\ Finished(b) /\ ~Failed(b)) =>
            /\ core_run[b] = (IF req[b].force \/ retrain[b][1] THEN "ok" ELSE "none")
            /\ nlu_run[b] = (IF req[b].force \/ retrain[b][2] THEN "ok" ELSE "none"))
    /\ [][InvokedAtMostOnce(core_run) /\ InvokedAtMostOnce(nlu_run)]_vars
    /\ [](\A b \in Builds : Failed(b) => (Finished(b) /\ pc[b] = "done"))
    /\ [][\A b \in Builds : Finished(b) => Finished(b)']_vars

\* C17's case: a request without force_training, decided (True, False), ended
\* having invoked the Core trainer alone and packaged.
C17_Witness ==
    \E a \in Builds :
        /\ Decides(a) /\ Finished(a) /\ ~Failed(a) /\ ~req[a].force
        /\ retrain[a] = <<TRUE, FALSE>>
        /\ core_run[a] = "ok" /\ nlu_run[a] = "none" /\ packaged[a]

\* The case of C18: the request trains both kinds.
TrainsBoth(b) ==
    /\ mode[b] = "full"
    /\ req[b].force \/ retrain[b][1]
    /\ req[b].force \/ retrain[b][2]

\* C18: in a request that trains both kinds, the NLU trainer is invoked only
\* when the Core trainer has succeeded, the two never run at the same time,
\* and _package_model is called only when the NLU trainer has succeeded.
C18_CoreThenNluThenPackage ==
    /\ [](\A b \in Builds : TrainsBoth(b) =>
            /\ nlu_run[b] # "none" => core_run[b] = "ok"
            /\ ~(core_run[b] = "running" /\ nlu_run[b] = "running")
            /\ (pc[b] = "package" \/ packaged[b]) => nlu_run[b] = "ok")
    /\ [][\A b \in Builds : TrainsBoth(b) =>
            /\ (nlu_run[b] = "none" /\ nlu_run'[b] = "running") => core_run[b] = "ok"
            /\ Packages(b) => (core_run[b] = "ok" /\ nlu_run[b] = "ok")]_vars

\* C18's case: such a request has packaged, while another runs its NLU
\* trainer after its Core trainer.
C18_Witness ==
    \E a, b \in Builds :
        /\ TrainsBoth(a) /\ packaged[a]
        /\ TrainsBoth(b) /\ nlu_run[b] = "running" /\ core_run[b] = "ok"

Suspended(p) == lpc[p] = "waiting"

\* C19: wait_counter is the number of coroutines that called acquire and have
\* not left it, the holder not among them; so it is 0 exactly when no
\* coroutine is inside acquire, and whenever a coroutine can call
\* is_someone_waiting (none is executing inside acquire), it returns True iff
\* a coroutine is suspended inside acquire.
C19_CounterCountsAcquirers ==
    /\ wait_counter = Cardinality({p \in Procs : InAcquire(p)})
    /\ \A p \in Holders : ~InAcquire(p)
    /\ wait_counter = 0 <=> (\A p \in Procs : ~InAcquire(p))
    /\ running = 0 => (is_someone_waiting <=> \E p \in Procs : Suspended(p))

\* C19's case: one coroutine holds the lock and two are suspended in acquire.
C19_Witness ==
    \E p, q, r \in Procs :
        /\ q # r
        /\ lpc[p] = "holding" /\ Suspended(q) /\ Suspended(r)
        /\ wait_counter = 2 /\ running = 0

\* Coroutine p holds the lock it got from the registry, or is inside acquire
\* on it.
UsesLock(p) == lpc[p] \in {"entered", "waiting", "holding"}

\* C20: under the protocol (acquire called with no yield after retrieving the
\* lock; an entry removed only when is_someone_waiting() is False and the lock
\* is unlocked), the lock a coroutine holds or waits on is the one entered in
\* the registry under its key, no step removes the entry of such a lock, and
\* no two coroutines hold locks of the same key at the same time.
C20_DiscardIsSafe ==
    /\ [](\A p \in Procs : UsesLock(p) => reg[key[p]] = mine[p])
    /\ [][\A k \in Keys : (reg[k] # 0 /\ reg'[k] # reg[k]) =>
            \A p \in Procs : ~(UsesLock(p) /\ mine[p] = reg[k])]_vars
    /\ [](\A p, q \in Procs :
            (p # q /\ lpc[p] = "holding" /\ lpc[q] = "holding") => key[p] # key[q])

\* C20's case: a lock was discarded after its holder released it, and another
\* coroutine holds the new lock of the same key while a third waits on it.
C20_Witness ==
    \E p, q, r \in Procs :
        /\ key[p] = key[q] /\ key[q] = key[r]
        /\ lpc[p] = "released" /\ lpc[q] = "holding" /\ lpc[r] = "waiting"
        /\ mine[p] # mine[q] /\ mine[r] = mine[q]
        /\ reg[key[q]] = mine[q]

\* The fingerprint of request b's inputs, as line 152 computes it.
InputFingerprint(b) ==
    [config |-> req[b].config, domain |-> req[b].domain,
     nlu |-> req[b].nlu, story |-> req[b].story]

\* C21: the artifact a request publishes embeds the fingerprint of the
\* request's own inputs: all four of them, as computed when the request was
\* called, in a full or partial build; config and NLU data only in an NLU-only
\* build (empty story tree or invalid domain); config, domain and story data
\* only in a Core-only build.
C21_EmbedsInputFingerprint ==
    /\ [](\A b \in Builds : Decides(b) => new_fingerprint[b] = InputFingerprint(b))
    /\ [][\A b \in Builds : Started(b) =>
            new_fingerprint'[b] = new_fingerprint[b] /\ req'[b] = req[b]]_vars
    /\ [][\A b \in Builds : Packages(b) =>
            LET fp == Latest(store'[req[b].output]).fp
            IN  /\ Decides(b) => fp = InputFingerprint(b)
                /\ (NluOnlyData(b) \/ req[b].domain = InvalidDomainFile) =>
                        fp = [InputFingerprint(b) EXCEPT !.domain = Absent, !.story = Absent]
                /\ CoreOnlyData(b) =>
                        fp = [InputFingerprint(b) EXCEPT !.nlu = Absent]]_vars

\* C21's case: a partial build (the Core trainer alone) has published, with
\* inputs that differ from those of the artifact it found.
C21_Witness ==
    \E b \in Builds :
        /\ Decides(b) /\ packaged[b] /\ ~req[b].force
        /\ retrain[b] = <<TRUE, FALSE>>
        /\ Latest(store[req[b].output]).fp = InputFingerprint(b)
        /\ old_model[b].fp # InputFingerprint(b)

\* The Core model request b trained is in an artifact at some output location.
CorePublished(b) ==
    \E l \in Locs : \E i \in 1..Len(store[l]) : store[l][i].core = CoreModel(b)

\* C22: a train_async call that has ended, however it ended, has none of its
\* temporary directories left and nothing left of what was trained in them,
\* while a call that has not ended has its three directories; the Core model
\* of a request whose NLU trainer failed is in no artifact.
C22_TemporariesRemoved ==
    /\ [](\A b \in Builds : Finished(b) =>
            dirs[b] = {} /\ train_path[b] = EmptyDir)
    /\ [](\A b \in Builds : (Started(b) /\ ~Finished(b)) => TempDirs \subseteq dirs[b])
    /\ [](\A b \in Builds : (core_run[b] = "ok" /\ nlu_run[b] = "failed") =>
            Finished(b) /\ ~CorePublished(b))
    /\ [][\A b \in Builds :
            (core_run[b] = "ok" /\ nlu_run[b] # "failed" /\ nlu_run'[b] = "failed") =>
            /\ train_path[b].core = CoreModel(b)
            /\ train_path'[b] = EmptyDir]_vars

\* C22's case: the NLU trainer failed after the Core trainer succeeded, and
\* the request's directories are gone.
C22_Witness ==
    \E b \in Builds :
        /\ core_run[b] = "ok" /\ nlu_run[b] = "failed"
        /\ Finished(b) /\ dirs[b] = {} /\ train_path[b] = EmptyDir

TrainerInvoked(b) == core_run[b] # "none" \/ nlu_run[b] # "none"

Named(dir, n) == {i \in 1..Len(dir) : dir[i].name = n}

\* C24: a request that packages with a fixed model name publishes under that
\* name, after which the location holds exactly one artifact of the name (the
\* new one) and, unchanged and in their order, the artifacts of other names
\* it held before.  A request that packages without a fixed model name
\* publishes under a name no artifact of the location has, and the artifacts
\* the location held are all still there, unchanged, before the new one.
C24_PublicationNaming ==
    [][\A b \in Builds : Packages(b) =>
        LET old == store[req[b].output]
            dir == store'[req[b].output]
            new == Latest(dir)
        IN  /\ result'[b] = Path(new.name)
            /\ Cardinality(Named(dir, new.name)) = 1
            /\ req[b].fixed # NoFixedName =>
                /\ new.name = [NoName EXCEPT !.fixed = req[b].fixed]
                /\ SubSeq(dir, 1, Len(dir) - 1) =
                        SelectSeq(old, LAMBDA a : a.name # new.name)
            /\ req[b].fixed = NoFixedName =>
                /\ new.name.fixed = NoFixedName /\ new.name.stamp > 0
                /\ Named(old, new.name) = {}
                /\ dir = Append(old, new)]_vars

\* C24's case: two requests have published under the same fixed name at one
\* location, which holds the later one's artifact alone.
C24_Witness ==
    \E a, b \in Builds :
        /\ a # b /\ packaged[a] /\ packaged[b]
        /\ req[a].output = req[b].output
        /\ req[a].fixed # NoFixedName /\ req[a].fixed = req[b].fixed
        /\ Len(store[req[a].output]) = 1

\* The decision of a request that reached the decision stage.
Decision(b) ==
    LET core == req[b].force \/ retrain[b][1]
        nlu == req[b].force \/ retrain[b][2]
    IN  CASE core /\ nlu -> "full"
          [] core /\ ~nlu -> "core"
          [] ~core /\ nlu -> "nlu"
          [] OTHER -> "skip"

\* What a request of each decision reports when no trainer fails.
Reported(d) ==
    CASE d = "skip" -> {NothingChangedMsg}
      [] d = "core" -> {TrainingCore, CoreCompleted, NluUnchangedMsg, ModelSaved}
      [] d = "nlu" -> {CoreUnchangedMsg, TrainingNlu, NluCompleted, ModelSaved}
      [] OTHER -> {TrainingCore, CoreCompleted, TrainingNlu, NluCompleted, ModelSaved}

Reports(b) == Decides(b) /\ Finished(b) /\ ~Failed(b)

Unusable(b) ==
    \/ req[b].entry = "train_nlu" /\ req[b].nlu = EmptyTree
    \/ /\ req[b].entry = "train_core_async"
       /\ req[b].domain = InvalidDomainFile \/ req[b].story = EmptyTree

\* C26: such a call returns None in the step it is called, leaving every
\* output location as it is; it invokes no trainer, packages nothing and
\* leaves no temporary directory.
C26_UnusableInputReturnsNone ==
    /\ [](\A b \in Builds : Unusable(b) =>
            /\ Finished(b) /\ result[b] = ReturnedNone
            /\ core_run[b] = "none" /\ nlu_run[b] = "none"
            /\ ~packaged[b]
            /\ dirs[b] = {} /\ train_path[b] = EmptyDir)
    /\ [][\A b \in Builds : (~Started(b) /\ Unusable(b)') => store' = store]_vars

\* C26's case: a train_core_async call with stories but an invalid domain and
\* a train_nlu call with an empty NLU data tree have returned, at a location
\* that holds an artifact or not.
C26_Witness ==
    \E a, b \in Builds :
        /\ req[a].entry = "train_core_async" /\ Unusable(a)
        /\ req[a].story # EmptyTree /\ result[a] = ReturnedNone
        /\ req[b].entry = "train_nlu" /\ Unusable(b) /\ result[b] = ReturnedNone

\* A waiter suspended in acquire whose future is still pending.
PendingWaiter(q) == lpc[q] = "waiting" /\ fut[q] = "pending"

\* C27: the step in which a cancelled acquire ends decrements wait_counter by
\* one; the coroutine is then out of the queue for good, never holding the
\* lock and changing the counter no more.  No wake-up is lost by it: while
\* the lock is free and a waiter's future is pending, some waiter has been
\* woken or is a cancelled one that will pass the wake-up on when it resumes;
\* and once a coroutine's acquire was cancelled, every coroutine still
\* waiting gets out of acquire.
C27_CancelledAcquire ==
    /\ [][\A p \in Procs : (lpc[p] = "waiting" /\ lpc'[p] = "cancelled") =>
            /\ wait_counter' = wait_counter - 1
            /\ locked' = locked]_vars
    /\ [][\A p \in Procs : lpc[p] = "cancelled" => lpc'[p] = "cancelled"]_vars
    /\ [](\A p \in Procs : lpc[p] = "cancelled" =>
            /\ fut[p] = "none"
            /\ \A i \in 1..Len(waiters) : waiters[i] # p)
    /\ []((~locked /\ running = 0 /\ \E q \in Procs : PendingWaiter(q)) =>
            \E r \in Procs : lpc[r] = "waiting" /\ fut[r] \in {"result", "cancelled"})
    /\ \A q \in Procs :
            [](((\E p \in Procs : lpc[p] = "cancelled") /\ lpc[q] = "waiting") =>
                    <>(lpc[q] # "waiting"))

\* C27's case: a waiter was cancelled, the holder has released, and another
\* coroutine holds the lock.
C27_Witness ==
    \E p, q, r \in Procs :
        /\ lpc[p] = "cancelled" /\ lpc[q] = "released" /\ lpc[r] = "holding"
        /\ wait_counter = 0 /\ waiters = <<>>

Degraded(b) ==
    /\ Started(b)
    /\ \/ req[b].domain = InvalidDomainFile
       \/ (req[b].story = EmptyTree) # (req[b].nlu = EmptyTree)
\* The one trainer a degraded request is left with.
RemainingRun(b) ==
    IF req[b].domain # InvalidDomainFile /\ req[b].nlu = EmptyTree
    THEN core_run[b] ELSE nlu_run[b]

\* C29: a degraded request never skips and never looks at the latest
\* artifact or takes the staleness decision; it invokes the remaining
\* trainer, and unless that raises it publishes a new artifact with the
\* model just trained, with or without force_training and whatever is
\* published at the location.
C29_DegradedNeverSkipped ==
    /\ [](\A b \in Builds : Degraded(b) =>
            /\ mode[b] \in {"no_domain", "nlu_only", "core_only"}
            /\ old_model[b] = NoArtifact /\ retrain[b] = <<TRUE, TRUE>>
            /\ NothingChangedMsg \notin log[b]
            /\ pc[b] \notin {"core", "nlu"} => RemainingRun(b) # "none"
            /\ (Finished(b) /\ ~Failed(b)) =>
                    RemainingRun(b) = "ok" /\ packaged[b] /\ result[b].kind = "path")
    /\ [][\A b \in Builds : (Degraded(b) /\ Packages(b)) =>
            LET new == Latest(store'[req[b].output])
            IN  /\ result'[b] = Path(new.name)
                /\ new.core = CoreModel(b) \/ new.nlu = NluModel(b)]_vars

\* C29's case: a degraded request without force_training has published at a
\* location where an artifact of the same inputs, hence of the same
\* fingerprint, was published before.
C29_Witness ==
    \E a, b \in Builds :
        /\ a < b /\ Degraded(a) /\ Degraded(b)
        /\ SameInputs(req[a], req[b]) /\ ~req[b].force
        /\ packaged[a] /\ packaged[b]
        /\ \E i \in 1..Len(store[req[b].output]) :
                /\ store[req[b].output][i].fp = Latest(store[req[b].output]).fp
                /\ store[req[b].output][i].nlu = NluModel(a)

====
